---- MODULE Spec2Model ----
(***************************************************************************)
(* Mass-mailing pipeline of the EuroBot backend:                           *)
(*   backend/app/routers/email.py   create_campaign, send_campaign,        *)
(*                                  send_campaign_emails, delete_campaign, *)
(*                                  send_custom_email, get_email_stats     *)
(*   backend/app/utils/email.py     send_email                             *)
(*   backend/app/routers/teams.py   register_team, update_team,            *)
(*                                  delete_team (the team registry)        *)
(*   backend/app/routers/contacts.py send_contact_message                  *)
(* The super-admin table editor of routers/database.py is outside the      *)
(* pipeline and is not modelled.                                           *)
(*                                                                         *)
(* Every request handler is a coroutine; it is cut into one action per     *)
(* stretch of code between two awaits that reach the database or the SMTP  *)
(* server, so handlers of different requests interleave exactly at those   *)
(* awaits.  Every request has its own database session: a row it has read  *)
(* (the ORM object `campaign`) is a private copy, and rows it has flushed  *)
(* but not committed are not visible to other sessions.  The database and  *)
(* the session are taken to work (no statement fails for lack of a         *)
(* connection); the SMTP transport may fail on any message.                *)
(*                                                                         *)
(* Optional values (Python None) are sequences of length 0 or 1.           *)
(***************************************************************************)
EXTENDS Integers, Sequences, FiniteSets, TLC

\* ------------------------------------------------------------ bounds
\* Main specification
MaxTeams == 3
MaxCampaigns == 1
MaxTriggers == 2
MaxDeletes == 1
\* Resolver specification
MaxRegistry == 5
MaxListLen == 3
MaxCap == 2
\* Registry specification
MaxMails == 2
\* Campaigns specification
MaxOverlap == 2

\* ------------------------------------------------------------ values
None == << >>
Some(v) == << v >>

\* Python truthiness of an Optional[int]: None and 0 are false.
TruthyInt(o) == o # None /\ o[1] # 0
\* Python truthiness of an Optional[list] / Optional[str]: None and the
\* empty sequence are false.
TruthySeq(o) == o # None /\ Len(o[1]) > 0

TargetTypes == {"all_teams", "approved_teams", "pending_teams", "custom_emails"}
Addresses == {"a@x.com", "b@x.com"}
Seasons == {1, 2}

\* json.dumps of a list of strings: a text that is never empty ("[]" has two
\* characters) and that json.loads turns back into the list.
json_dumps(list) == [text |-> "json", items |-> list]
json_loads(s) == s.items
\* truthiness of Optional[str] holding a JSON text
TruthyJson(o) == o # None

RECURSIVE SeqsUpTo(_, _)
SeqsUpTo(S, n) ==
    IF n = 0 THEN {<< >>}
    ELSE LET shorter == SeqsUpTo(S, n - 1)
         IN shorter \cup {Append(s, x) : s \in {t \in shorter : Len(t) = n - 1}, x \in S}

VARIABLES
    teams,          \* the teams table: a set of rows
    nextTeamId,     \* the teams id sequence (also the registration clock)
    campaigns,      \* the mass_mailing_campaigns table: id -> row
    nextCampaignId, \* its id sequence
    email_logs,     \* the email_logs table: a set of rows
    reqs,           \* the send_campaign calls and their background tasks
    dels,           \* the delete_campaign calls
    smtp,           \* settings.SMTP_USER and settings.SMTP_PASSWORD are set
    mails,          \* the send_email attempts of the other handlers, one
                    \* entry per recipient, in order
    stats,          \* the get_email_stats call
    custom_sends    \* the send_custom_email calls that have returned

vars == << teams, nextTeamId, campaigns, nextCampaignId, email_logs, reqs, dels, smtp, mails, stats, custom_sends >>

\* ------------------------------------------------------------ resolver
Min(a, b) == IF a < b THEN a ELSE b

\* .where(Team.status == ...) of lines 227-230 (160-163 in create_campaign)
WhereStatus(rows, target_type) ==
    IF target_type = "approved_teams" THEN {t \in rows : t.status = "approved"}
    ELSE IF target_type = "pending_teams" THEN {t \in rows : t.status = "pending"}
    ELSE rows

\* .where(Team.season_id == ...) of lines 232-233 (165-166)
WhereSeason(rows, target_season_id) ==
    IF TruthyInt(target_season_id)
    THEN {t \in rows : t.season_id = target_season_id[1]}
    ELSE rows

NewestOf(rows) == CHOOSE t \in rows : \A u \in rows : u.created_at <= t.created_at

\* variant: order_by(Team.created_at) without .desc()
OrderAscending(rows) ==
    LET oldest(S) == CHOOSE t \in S : \A u \in S : t.created_at <= u.created_at
        F[S \in SUBSET rows] == IF S = {} THEN << >> ELSE << oldest(S) >> \o F[S \ {oldest(S)}]
    IN F[rows]

\* .order_by(Team.created_at.desc()) of line 236
OrderByCreatedDesc(rows) ==
    LET F[S \in SUBSET rows] ==
            IF S = {} THEN << >> ELSE << NewestOf(S) >> \o F[S \ {NewestOf(S)}]
    IN F[rows]

\* variant: a limit that lets one row too many through
LimitOffByOne(rowseq, n) == SubSeq(rowseq, 1, Min(n + 1, Len(rowseq)))

\* .limit(n) of line 240
Limit(rowseq, n) == SubSeq(rowseq, 1, Min(n, Len(rowseq)))

\* variant: the query is cut to the count stored when the campaign was created
TeamsQueryOfPreview(rows, campaign) ==
    LET filtered == WhereSeason(WhereStatus(rows, campaign.target_type),
                                campaign.target_season_id)
        result == Limit(OrderByCreatedDesc(filtered), campaign.total_recipients)
    IN [i \in 1..Len(result) |-> [email |-> result[i].email, team_id |-> Some(result[i].id)]]

\* lines 225-244: the teams query of send_campaign and its result
TeamsQuery(rows, campaign) ==
    LET filtered == WhereSeason(WhereStatus(rows, campaign.target_type),
                                campaign.target_season_id)
        ordered == OrderByCreatedDesc(filtered)
        result == IF TruthyInt(campaign.recipients_limit)
                  THEN Limit(ordered, campaign.recipients_limit[1])
                  ELSE ordered
    IN [i \in 1..Len(result) |-> [email |-> result[i].email, team_id |-> Some(result[i].id)]]

\* line 220: the branch taken for an explicit address list
IsCustomList(campaign) ==
    campaign.target_type = "custom_emails" /\ TruthyJson(campaign.custom_emails)

\* line 222
CustomRecipients(campaign) ==
    LET list == json_loads(campaign.custom_emails[1])
    IN [i \in 1..Len(list) |-> [email |-> list[i], team_id |-> None]]

\* variant: the cap is applied whenever one is given, 0 included
CountQueryAnyCap(rows, data) ==
    LET recipient_count == Cardinality(WhereSeason(WhereStatus(rows, data.target_type),
                                                   data.target_season_id))
    IN IF data.recipients_limit # None /\ data.recipients_limit[1] < recipient_count
       THEN data.recipients_limit[1]
       ELSE recipient_count

\* lines 158-173: the preview count of create_campaign
CountQuery(rows, data) ==
    LET recipient_count == Cardinality(WhereSeason(WhereStatus(rows, data.target_type),
                                                   data.target_season_id))
    IN IF TruthyInt(data.recipients_limit) /\ data.recipients_limit[1] < recipient_count
       THEN data.recipients_limit[1]
       ELSE recipient_count

\* ------------------------------------------------------------ rows
\* MassMailingCampaign(...) of lines 149-187, with the column defaults of
\* models/email_log.py lines 81-86 and 93
NewCampaign(rows, data) ==
    LET custom == data.target_type = "custom_emails" /\ TruthySeq(data.custom_emails)
    IN [ name             |-> data.name,
         subject          |-> data.subject,
         body             |-> data.body,
         target_type      |-> data.target_type,
         target_season_id |-> data.target_season_id,
         custom_emails    |-> IF custom THEN Some(json_dumps(data.custom_emails[1])) ELSE None,
         recipients_limit |-> data.recipients_limit,
         is_scheduled     |-> data.scheduled_at # None,
         scheduled_at     |-> data.scheduled_at,
         total_recipients |-> IF custom THEN Len(data.custom_emails[1])
                              ELSE CountQuery(rows, data),
         sent_count       |-> 0,
         failed_count     |-> 0,
         is_sent          |-> FALSE,
         sent_at          |-> None ]

\* EmailLog(...) of utils/email.py lines 94-103; disp and i are not columns:
\* they name the send_campaign call and the position in its recipient list
\* the row was written for
NewLog(r, i, recipient, subject) ==
    [ disp          |-> r,
      i             |-> i,
      to_email      |-> recipient.email,
      subject       |-> subject,
      email_type    |-> "mass_mailing",
      status        |-> "pending",
      error_message |-> None,
      team_id       |-> recipient.team_id,
      sent_at       |-> None,
      committed     |-> FALSE ]

NoResponse == [status |-> 0, count |-> 0]
\* line 278: the message carries len(recipients)
Started(n) == [status |-> 200, count |-> n]
\* lines 212, 215, 294, 297
NotFound == [status |-> 404, count |-> 0]
Rejected == [status |-> 400, count |-> 0]
\* line 302
Deleted == [status |-> 200, count |-> 0]

IdleReq ==
    [ pc          |-> "idle",
      campaign_id |-> 0,
      campaign    |-> None,      \* the ORM object read at lines 206-209
      recipients  |-> << >>,
      response    |-> NoResponse,
      i           |-> 1,         \* position of the for loop of line 253
      sent        |-> 0,
      failed      |-> 0,
      success     |-> TRUE,      \* send_email's local of line 87
      results     |-> << >>,     \* what each send_email call returned
      transport   |-> << >> ]    \* the aiosmtplib.send calls made, in order

IdleDel == [pc |-> "idle", campaign_id |-> 0, campaign |-> None, response |-> NoResponse]

\* ------------------------------------------------------------ team registry
\* one send_email attempt of a handler other than the campaign dispatch: who
\* called, the recipient, and whether a database session was passed (db=db)
Attempt(caller, to, db) == [caller |-> caller, to |-> to, db |-> db]

\* routers/teams.py lines 78-110: the team is committed, then the confirmation
\* is sent by send_registration_confirmation(team.name, team.email), a call
\* that passes no database session
register_team(data) ==
    /\ teams' = teams \cup {[ id         |-> nextTeamId,
                              status     |-> "pending",
                              season_id  |-> data.season_id,
                              email      |-> data.email,
                              created_at |-> nextTeamId ]}
    /\ nextTeamId' = nextTeamId + 1
    /\ mails' = Append(mails, Attempt("register_team", data.email, FALSE))
    /\ UNCHANGED << campaigns, nextCampaignId, email_logs, reqs, dels, smtp, stats, custom_sends >>

\* routers/teams.py lines 246-261: the columns sent in the body are assigned to
\* the team, here its status (the admin approves or rejects a registration)
update_team(team_id, status) ==
    /\ \E t \in teams : t.id = team_id
    /\ teams' = {IF t.id = team_id THEN [t EXCEPT !.status = status] ELSE t : t \in teams}
    /\ UNCHANGED << nextTeamId, campaigns, nextCampaignId, email_logs, reqs, dels, smtp, mails, stats, custom_sends >>

\* the recipients of call r whose Delivery Record is not committed yet
Unlogged(r) ==
    IF reqs[r].pc \in {"loop", "flushed", "transport", "commit"}
    THEN {reqs[r].recipients[j] : j \in reqs[r].i..Len(reqs[r].recipients)}
    ELSE {}

\* routers/teams.py lines 273-285.  email_logs.team_id references teams.id
\* with ON DELETE SET NULL (models/email_log.py line 47): the records of the
\* team lose their team id.  Statements are taken to succeed, so a team is
\* deleted only when no dispatch has a record of it to insert or commit yet
\* (the insert of a record that references a deleted team fails, and the
\* DELETE waits for an uncommitted record that references the team).
delete_team(team_id) ==
    /\ \E t \in teams : t.id = team_id
    /\ \A r \in DOMAIN reqs : \A recipient \in Unlogged(r) : recipient.team_id # Some(team_id)
    /\ teams' = {t \in teams : t.id # team_id}
    /\ email_logs' = {IF l.team_id = Some(team_id) THEN [l EXCEPT !.team_id = None] ELSE l :
                          l \in email_logs}
    /\ UNCHANGED << nextTeamId, campaigns, nextCampaignId, reqs, dels, smtp, mails, stats, custom_sends >>

\* ------------------------------------------------------------ campaigns
\* routers/email.py lines 149-193.  The preview count is read in the step
\* that inserts the row.
create_campaign(data) ==
    /\ campaigns' = [c \in DOMAIN campaigns \cup {nextCampaignId} |->
                        IF c = nextCampaignId THEN NewCampaign(teams, data)
                        ELSE campaigns[c]]
    /\ nextCampaignId' = nextCampaignId + 1
    /\ UNCHANGED << teams, nextTeamId, email_logs, reqs, dels, smtp, mails, stats, custom_sends >>

\* variant: no guard on is_sent
AlwaysProceed(campaign) == FALSE

\* variant: a scheduled campaign is not sent by a trigger
AlreadySentOrScheduled(campaign) == campaign.is_sent \/ campaign.is_scheduled

\* line 214: the double-send guard reads the flag of the row as loaded
AlreadySent(campaign) == campaign.is_sent

\* variant: the response reports campaign.total_recipients, the preview
ReturnPreview(req, recipients) ==
    [req EXCEPT !.recipients = recipients,
                !.response = Started(req.campaign[1].total_recipients),
                !.pc = "loop"]

\* lines 246-278: the recipient list is fixed, the background task is added
\* and the response is returned; the task starts after the response
send_campaign_return(req, recipients) ==
    [req EXCEPT !.recipients = recipients,
                !.response = Started(Len(recipients)),
                !.pc = "loop"]

\* lines 206-222 (and 246-278 on the explicit-list branch, which has no await)
send_campaign_select(r, cid) ==
    /\ reqs[r].pc = "idle"
    /\ LET req == [reqs[r] EXCEPT !.campaign_id = cid] IN
       IF cid \notin DOMAIN campaigns
       THEN reqs' = [reqs EXCEPT ![r] = [req EXCEPT !.pc = "rejected", !.response = NotFound]]
       ELSE LET campaign == campaigns[cid]
                loaded == [req EXCEPT !.campaign = Some(campaign)]
            IN IF AlreadySent(campaign)
               THEN reqs' = [reqs EXCEPT ![r] = [loaded EXCEPT !.pc = "rejected",
                                                               !.response = Rejected]]
               ELSE IF IsCustomList(campaign)
               THEN reqs' = [reqs EXCEPT ![r] =
                                send_campaign_return(loaded, CustomRecipients(campaign))]
               ELSE reqs' = [reqs EXCEPT ![r] = [loaded EXCEPT !.pc = "resolve"]]
    /\ UNCHANGED << teams, nextTeamId, campaigns, nextCampaignId, email_logs, dels, smtp, mails, stats, custom_sends >>

\* lines 225-278: the teams query returns; the rest of the handler runs
send_campaign_resolve(r) ==
    /\ reqs[r].pc = "resolve"
    /\ reqs' = [reqs EXCEPT ![r] =
                   send_campaign_return(reqs[r], TeamsQuery(teams, reqs[r].campaign[1]))]
    /\ UNCHANGED << teams, nextTeamId, campaigns, nextCampaignId, email_logs, dels, smtp, mails, stats, custom_sends >>

\* ------------------------------------------------------------ dispatch
\* The row send_email is working on for call r: the one it flushed last
CurrentLog(r) == CHOOSE l \in email_logs : l.disp = r /\ l.i = reqs[r].i

SetLog(r, row) == (email_logs \ {CurrentLog(r)}) \cup {row}

\* utils/email.py lines 86-105, entered from routers/email.py lines 253-262:
\* the pending row is added and flushed
send_email_log(r) ==
    /\ reqs[r].pc = "loop"
    /\ reqs[r].i <= Len(reqs[r].recipients)
    /\ email_logs' = email_logs \cup
           {NewLog(r, reqs[r].i, reqs[r].recipients[reqs[r].i], reqs[r].campaign[1].subject)}
    /\ reqs' = [reqs EXCEPT ![r].pc = "flushed", ![r].success = TRUE]
    /\ UNCHANGED << teams, nextTeamId, campaigns, nextCampaignId, dels, smtp, mails, stats, custom_sends >>

\* variant: the status is set without the completion time
MarkSentNoTimestamp(row) == [row EXCEPT !.status = "sent"]

\* utils/email.py lines 148-149
MarkSent(row) == [row EXCEPT !.status = "sent", !.sent_at = Some("utcnow")]

\* variant: the error is noted and the status left as it is
MarkFailedKeepsPending(row, error) == [row EXCEPT !.error_message = Some(error)]

\* utils/email.py lines 112-113 and 154-155
MarkFailed(row, error) == [row EXCEPT !.status = "failed", !.error_message = Some(error)]

\* variant: without credentials the recipient is skipped and counts as sent
send_email_skipped(r) ==
    /\ reqs[r].pc = "flushed"
    /\ ~smtp
    /\ email_logs' = SetLog(r, MarkFailed(CurrentLog(r), "SMTP not configured"))
    /\ reqs' = [reqs EXCEPT ![r].pc = "commit"]
    /\ UNCHANGED << teams, nextTeamId, campaigns, nextCampaignId, dels, smtp, mails, stats,
                    custom_sends >>

\* utils/email.py lines 109-115 and 159-161: without credentials the row is
\* marked failed, nothing is sent and the commit is issued
send_email_unconfigured(r) ==
    /\ reqs[r].pc = "flushed"
    /\ ~smtp
    /\ email_logs' = SetLog(r, MarkFailed(CurrentLog(r), "SMTP not configured"))
    /\ reqs' = [reqs EXCEPT ![r].pc = "commit", ![r].success = FALSE]
    /\ UNCHANGED << teams, nextTeamId, campaigns, nextCampaignId, dels, smtp, mails, stats, custom_sends >>

\* utils/email.py lines 117-143: the message is built and handed to
\* aiosmtplib.send
send_email_transport(r) ==
    /\ reqs[r].pc = "flushed"
    /\ smtp
    /\ reqs' = [reqs EXCEPT ![r].pc = "transport",
                            ![r].transport = Append(@, [i |-> reqs[r].i,
                                                        to |-> CurrentLog(r).to_email])]
    /\ UNCHANGED << teams, nextTeamId, campaigns, nextCampaignId, email_logs, dels, smtp, mails, stats, custom_sends >>

\* utils/email.py lines 145-149 and 159-161: aiosmtplib.send returned
send_email_sent(r) ==
    /\ reqs[r].pc = "transport"
    /\ email_logs' = SetLog(r, MarkSent(CurrentLog(r)))
    /\ reqs' = [reqs EXCEPT ![r].pc = "commit"]
    /\ UNCHANGED << teams, nextTeamId, campaigns, nextCampaignId, dels, smtp, mails, stats, custom_sends >>

\* utils/email.py lines 151-156 and 159-161: aiosmtplib.send raised
send_email_failed(r) ==
    /\ reqs[r].pc = "transport"
    /\ email_logs' = SetLog(r, MarkFailed(CurrentLog(r), "str(e)"))
    /\ reqs' = [reqs EXCEPT ![r].pc = "commit", ![r].success = FALSE]
    /\ UNCHANGED << teams, nextTeamId, campaigns, nextCampaignId, dels, smtp, mails, stats, custom_sends >>

\* variant: the loop breaks at the first failed send
TallyStopsOnFailure(req) ==
    [req EXCEPT !.sent = IF req.success THEN @ + 1 ELSE @,
                !.failed = IF req.success THEN @ ELSE @ + 1,
                !.results = Append(@, req.success),
                !.i = IF req.success THEN @ + 1 ELSE Len(req.recipients) + 1,
                !.pc = "loop"]

\* variant: the first failed send of a dispatch is tried again
TallyRetries(req) ==
    [req EXCEPT !.sent = IF req.success THEN @ + 1 ELSE @,
                !.failed = IF req.success THEN @ ELSE @ + 1,
                !.results = Append(@, req.success),
                !.i = IF req.success \/ req.failed > 0 THEN @ + 1 ELSE @,
                !.pc = "loop"]

\* routers/email.py lines 264-267 and the next turn of the loop of line 253
Tally(req) ==
    [req EXCEPT !.sent = IF req.success THEN @ + 1 ELSE @,
                !.failed = IF req.success THEN @ ELSE @ + 1,
                !.results = Append(@, req.success),
                !.i = @ + 1,
                !.pc = "loop"]

\* utils/email.py lines 161-165: the commit returns and so does send_email
send_email_commit(r) ==
    /\ reqs[r].pc = "commit"
    /\ email_logs' = SetLog(r, [CurrentLog(r) EXCEPT !.committed = TRUE])
    /\ reqs' = [reqs EXCEPT ![r] = Tally(reqs[r])]
    /\ UNCHANGED << teams, nextTeamId, campaigns, nextCampaignId, dels, smtp, mails, stats, custom_sends >>

\* variant: the final write also refreshes total_recipients
FinalWriteWithTotal(row, req) ==
    [row EXCEPT !.sent_count = req.sent,
                !.failed_count = req.failed,
                !.total_recipients = Len(req.recipients),
                !.is_sent = TRUE,
                !.sent_at = Some("utcnow")]

\* variant: the counters are taken from the whole Delivery Log
FinalWriteFromLog(row, req) ==
    [row EXCEPT !.sent_count = Cardinality({l \in email_logs : l.status = "sent"}),
                !.failed_count = Cardinality({l \in email_logs : l.status = "failed"}),
                !.is_sent = TRUE,
                !.sent_at = Some("utcnow")]

\* variant: the final write sets the flag alone
FinalWriteFlagOnly(row, req) == [row EXCEPT !.is_sent = TRUE]

\* routers/email.py lines 270-273: the four assignments of the final write
FinalWrite(row, req) ==
    [row EXCEPT !.sent_count = req.sent,
                !.failed_count = req.failed,
                !.is_sent = TRUE,
                !.sent_at = Some("utcnow")]

\* routers/email.py lines 269-274.  The UPDATE of a row that another session
\* has deleted matches nothing and the commit raises.
send_campaign_finalize(r) ==
    /\ reqs[r].pc = "loop"
    /\ reqs[r].i > Len(reqs[r].recipients)
    /\ IF reqs[r].campaign_id \in DOMAIN campaigns
       THEN /\ campaigns' = [campaigns EXCEPT ![reqs[r].campaign_id] = FinalWrite(@, reqs[r])]
            /\ reqs' = [reqs EXCEPT ![r].pc = "done"]
       ELSE /\ campaigns' = campaigns
            /\ reqs' = [reqs EXCEPT ![r].pc = "error"]
    /\ UNCHANGED << teams, nextTeamId, nextCampaignId, email_logs, dels, smtp, mails, stats, custom_sends >>

\* ------------------------------------------------------------ other senders
\* The handlers below write no row that another handler reads or writes, so
\* each is taken in one step.

\* the row send_email leaves for recipient to, the k-th attempt of the other
\* handlers, when it is called with db=db (utils/email.py lines 92-161)
LoggedAttempt(k, to, subject, email_type, delivered) ==
    LET row == [NewLog(0, k, [email |-> to, team_id |-> None], subject)
                    EXCEPT !.email_type = email_type, !.committed = TRUE]
    IN IF ~smtp THEN MarkFailed(row, "SMTP not configured")
       ELSE IF delivered THEN MarkSent(row)
       ELSE MarkFailed(row, "str(e)")

\* variant: success is the outcome of the last recipient
SuccessOfLast(outcome) ==
    smtp /\ (Len(outcome) > 0 => outcome[Len(outcome)])

\* utils/email.py lines 87, 114, 156 and 165: what send_email returns for a
\* list, outcome[k] telling whether aiosmtplib.send returned for the k-th
\* address
Success(outcome) ==
    smtp /\ \A k \in 1..Len(outcome) : outcome[k]

\* routers/email.py lines 387-390
CustomSent(n) == [status |-> 200, count |-> n]
CustomError == [status |-> 500, count |-> 0]

\* routers/email.py lines 370-390: send_email(to=request.to, ..., db=db,
\* email_type="custom"), every address of the list in turn, one commit after
\* the loop
send_custom_email(to, outcome) ==
    /\ custom_sends' = Append(custom_sends,
           [ first |-> Len(mails) + 1,
             to |-> to,
             response |-> IF Success(outcome) THEN CustomSent(Len(to)) ELSE CustomError ])
    /\ email_logs' = email_logs \cup
           {LoggedAttempt(Len(mails) + k, to[k], "s", "custom", outcome[k]) : k \in 1..Len(to)}
    /\ mails' = mails \o [k \in 1..Len(to) |-> Attempt("send_custom_email", to[k], TRUE)]
    /\ UNCHANGED << teams, nextTeamId, campaigns, nextCampaignId, reqs, dels, smtp, stats >>

\* routers/contacts.py lines 36-57: the message is stored (a table that is not
\* part of the pipeline), then send_contact_notification is called without a
\* database session
send_contact_message ==
    /\ mails' = Append(mails, Attempt("send_contact_message", "ADMIN_EMAIL", FALSE))
    /\ UNCHANGED << teams, nextTeamId, campaigns, nextCampaignId, email_logs, reqs, dels, smtp,
                    stats, custom_sends >>

\* ------------------------------------------------------------ statistics
\* routers/email.py lines 69-104.  Every count is a statement of its own: it
\* sees the rows committed when it runs (PostgreSQL's default isolation).
EmailTypes ==
    {"registration_confirmation", "team_status_update", "contact_notification",
     "mass_mailing", "custom"}

IdleStats == [pc |-> "idle", total |-> 0, sent |-> 0, failed |-> 0, response |-> None]

Visible == {l \in email_logs : l.committed}

\* line 102
Pending(total, sent, failed) == total - sent - failed

\* lines 76-77
get_email_stats_total ==
    /\ stats.pc = "idle"
    /\ stats' = [stats EXCEPT !.pc = "sent", !.total = Cardinality(Visible)]
    /\ UNCHANGED << teams, nextTeamId, campaigns, nextCampaignId, email_logs, reqs, dels, smtp,
                    mails, custom_sends >>

\* lines 80-83
get_email_stats_sent ==
    /\ stats.pc = "sent"
    /\ stats' = [stats EXCEPT !.pc = "failed",
                              !.sent = Cardinality({l \in Visible : l.status = "sent"})]
    /\ UNCHANGED << teams, nextTeamId, campaigns, nextCampaignId, email_logs, reqs, dels, smtp,
                    mails, custom_sends >>

\* lines 85-88
get_email_stats_failed ==
    /\ stats.pc = "failed"
    /\ stats' = [stats EXCEPT !.pc = "by_type",
                              !.failed = Cardinality({l \in Visible : l.status = "failed"})]
    /\ UNCHANGED << teams, nextTeamId, campaigns, nextCampaignId, email_logs, reqs, dels, smtp,
                    mails, custom_sends >>

\* lines 91-104: the counts by type (taken here in one step) and the response
get_email_stats_return ==
    /\ stats.pc = "by_type"
    /\ stats' = [stats EXCEPT
           !.pc = "done",
           !.response = Some([ total   |-> stats.total,
                               sent    |-> stats.sent,
                               failed  |-> stats.failed,
                               pending |-> Pending(stats.total, stats.sent, stats.failed),
                               by_type |-> [ty \in EmailTypes |->
                                   Cardinality({l \in Visible : l.email_type = ty})] ])]
    /\ UNCHANGED << teams, nextTeamId, campaigns, nextCampaignId, email_logs, reqs, dels, smtp,
                    mails, custom_sends >>

get_email_stats ==
    \/ get_email_stats_total
    \/ get_email_stats_sent
    \/ get_email_stats_failed
    \/ get_email_stats_return

\* ------------------------------------------------------------ delete
\* routers/email.py line 296
CannotDelete(campaign) == campaign.is_sent

\* routers/email.py lines 288-297
delete_campaign_select(d, cid) ==
    /\ dels[d].pc = "idle"
    /\ LET del == [dels[d] EXCEPT !.campaign_id = cid] IN
       IF cid \notin DOMAIN campaigns
       THEN dels' = [dels EXCEPT ![d] = [del EXCEPT !.pc = "rejected", !.response = NotFound]]
       ELSE IF CannotDelete(campaigns[cid])
       THEN dels' = [dels EXCEPT ![d] = [del EXCEPT !.pc = "rejected",
                                                    !.campaign = Some(campaigns[cid]),
                                                    !.response = Rejected]]
       ELSE dels' = [dels EXCEPT ![d] = [del EXCEPT !.pc = "commit",
                                                    !.campaign = Some(campaigns[cid])]]
    /\ UNCHANGED << teams, nextTeamId, campaigns, nextCampaignId, email_logs, reqs, smtp, mails, stats, custom_sends >>

\* variant: the records of the campaign's dispatches go with it
delete_campaign_cascade(d) ==
    /\ dels[d].pc = "commit"
    /\ campaigns' = [c \in DOMAIN campaigns \ {dels[d].campaign_id} |-> campaigns[c]]
    /\ email_logs' = {l \in email_logs : reqs[l.disp].campaign_id # dels[d].campaign_id}
    /\ dels' = [dels EXCEPT ![d].pc = "done", ![d].response = Deleted]
    /\ UNCHANGED << teams, nextTeamId, nextCampaignId, reqs, smtp, mails, stats, custom_sends >>

\* routers/email.py lines 299-302: DELETE ... WHERE id = :id, then commit
delete_campaign_commit(d) ==
    /\ dels[d].pc = "commit"
    /\ campaigns' = [c \in DOMAIN campaigns \ {dels[d].campaign_id} |-> campaigns[c]]
    /\ dels' = [dels EXCEPT ![d].pc = "done", ![d].response = Deleted]
    /\ UNCHANGED << teams, nextTeamId, nextCampaignId, email_logs, reqs, smtp, mails, stats, custom_sends >>

\* ------------------------------------------------------------ inputs
Content == [name |-> "n", subject |-> "s", body |-> "b"]

Descriptor(kind, season, list, cap, at) ==
    [ name |-> Content.name, subject |-> Content.subject, body |-> Content.body,
      target_type |-> kind, target_season_id |-> season, custom_emails |-> list,
      recipients_limit |-> cap, scheduled_at |-> at ]

\* MassMailingCreate bodies of the main specification
MainInputs ==
    { Descriptor("all_teams", None, None, None, None),
      Descriptor("approved_teams", Some(1), None, Some(1), Some("later")),
      Descriptor("custom_emails", None, Some(<< "a@x.com", "b@x.com" >>), None, None),
      Descriptor("custom_emails", None, Some(<< >>), None, None),
      Descriptor("newsletter", None, None, None, None) }

\* TeamCreate bodies of the main specification
MainRegistrations == { [season_id |-> 1, email |-> "b@x.com"] }

\* ------------------------------------------------------------ main specification
\* The registry the main specification starts from: two registered teams,
\* the older one approved since
InitialTeams ==
    { [id |-> 1, status |-> "approved", season_id |-> 1, email |-> "a@x.com", created_at |-> 1],
      [id |-> 2, status |-> "pending", season_id |-> 2, email |-> "b@x.com", created_at |-> 2] }

Init ==
    /\ teams = InitialTeams
    /\ nextTeamId = 3
    /\ campaigns = << >>
    /\ nextCampaignId = 1
    /\ email_logs = {}
    /\ reqs = [r \in 1..MaxTriggers |-> IdleReq]
    /\ dels = [d \in 1..MaxDeletes |-> IdleDel]
    /\ smtp \in BOOLEAN
    /\ mails = << >>
    /\ stats = IdleStats
    /\ custom_sends = << >>

Registry ==
    nextTeamId <= MaxTeams /\ \E data \in MainRegistrations : register_team(data)

Trigger ==
    \/ \E r \in DOMAIN reqs, cid \in 1..(nextCampaignId - 1) : send_campaign_select(r, cid)
    \/ \E r \in DOMAIN reqs : send_campaign_resolve(r)

\* the steps of the background task of call r
send_campaign_emails(r) ==
    \/ send_email_log(r)
    \/ send_email_unconfigured(r)
    \/ send_email_transport(r)
    \/ send_email_sent(r)
    \/ send_email_failed(r)
    \/ send_email_commit(r)
    \/ send_campaign_finalize(r)

Dispatch ==
    \/ \E r \in DOMAIN reqs : send_email_log(r)
    \/ \E r \in DOMAIN reqs : send_email_unconfigured(r)
    \/ \E r \in DOMAIN reqs : send_email_transport(r)
    \/ \E r \in DOMAIN reqs : send_email_sent(r)
    \/ \E r \in DOMAIN reqs : send_email_failed(r)
    \/ \E r \in DOMAIN reqs : send_email_commit(r)
    \/ \E r \in DOMAIN reqs : send_campaign_finalize(r)

Delete ==
    \/ \E d \in DOMAIN dels, cid \in 1..(nextCampaignId - 1) : delete_campaign_select(d, cid)
    \/ \E d \in DOMAIN dels : delete_campaign_commit(d)

Next ==
    \/ Registry
    \/ nextCampaignId <= MaxCampaigns /\ \E data \in MainInputs : create_campaign(data)
    \/ Trigger
    \/ Dispatch
    \/ Delete

Spec == Init /\ [][Next]_vars

\* The event loop runs every coroutine that can run: a teams query returns,
\* a background task that was added is run, and every await inside it (the
\* flush, aiosmtplib.send, the commit) returns or raises.
SpecFair ==
    /\ Spec
    /\ \A r \in 1..MaxTriggers : WF_vars(send_campaign_resolve(r))
    /\ \A r \in 1..MaxTriggers : WF_vars(send_campaign_emails(r))

\* ------------------------------------------------------------ registry specification
\* One team campaign, created and triggered once while the admin and the
\* public change the registry at any moment.
StatusUpdates == {"approved", "rejected"}

RegistryInputs ==
    { Descriptor("all_teams", None, None, None, None),
      Descriptor("approved_teams", None, None, Some(2), None) }

InitRegistry ==
    /\ teams = InitialTeams
    /\ nextTeamId = 3
    /\ campaigns = << >>
    /\ nextCampaignId = 1
    /\ email_logs = {}
    /\ reqs = [r \in 1..1 |-> IdleReq]
    /\ dels = << >>
    /\ smtp \in BOOLEAN
    /\ mails = << >>
    /\ stats = IdleStats
    /\ custom_sends = << >>

NextRegistry ==
    \/ Registry
    \/ \E team_id \in 1..MaxTeams, status \in StatusUpdates : update_team(team_id, status)
    \/ \E team_id \in 1..MaxTeams : delete_team(team_id)
    \/ nextCampaignId <= 1 /\ \E data \in RegistryInputs : create_campaign(data)
    \/ Trigger
    \/ Dispatch

SpecRegistry == InitRegistry /\ [][NextRegistry]_vars

\* ------------------------------------------------------------ senders specification
\* Every caller of send_email: the dispatch of one campaign, send_custom_email,
\* register_team and send_contact_message.
CustomMailLists == {<< "a@x.com" >>, << "a@x.com", "b@x.com" >>}

SendersInputs ==
    { Descriptor("custom_emails", None, Some(<< "a@x.com", "b@x.com" >>), None, None),
      Descriptor("pending_teams", None, None, None, None) }

NextSenders ==
    \/ Len(mails) < MaxMails /\ Registry
    \/ Len(mails) < MaxMails /\ send_contact_message
    \/ \E to \in CustomMailLists :
          /\ Len(mails) + Len(to) <= MaxMails
          /\ \E outcome \in [1..Len(to) -> IF smtp THEN BOOLEAN ELSE {FALSE}] :
                send_custom_email(to, outcome)
    \/ nextCampaignId <= 1 /\ \E data \in SendersInputs : create_campaign(data)
    \/ Trigger
    \/ Dispatch
    \/ get_email_stats

SpecSenders == InitRegistry /\ [][NextSenders]_vars

\* ------------------------------------------------------------ campaigns specification
\* Up to MaxOverlap campaigns, each triggered by any of the calls, over a
\* registry that does not change.
OverlapInputs ==
    { Descriptor("custom_emails", None, Some(<< "a@x.com" >>), None, None),
      Descriptor("all_teams", None, None, None, None) }

InitCampaigns ==
    /\ teams = InitialTeams
    /\ nextTeamId = 3
    /\ campaigns = << >>
    /\ nextCampaignId = 1
    /\ email_logs = {}
    /\ reqs = [r \in 1..MaxTriggers |-> IdleReq]
    /\ dels = << >>
    /\ smtp \in BOOLEAN
    /\ mails = << >>
    /\ stats = IdleStats
    /\ custom_sends = << >>

NextCampaigns ==
    \/ nextCampaignId <= MaxOverlap /\ \E data \in OverlapInputs : create_campaign(data)
    \/ Trigger
    \/ Dispatch

SpecCampaigns == InitCampaigns /\ [][NextCampaigns]_vars

\* ------------------------------------------------------------ resolver specification
\* One campaign is created over a registry drawn from the registries of up to
\* MaxRegistry teams, and triggered once: create_campaign and the resolving
\* part of send_campaign applied to every descriptor below.
TeamProfiles ==
    { << "approved", 1 >>, << "approved", 2 >>, << "pending", 1 >>, << "rejected", 2 >> }

TeamAddress(id) == IF id % 2 = 1 THEN "a@x.com" ELSE "b@x.com"

RegistryOf(n, profile) ==
    { [id |-> k, status |-> profile[k][1], season_id |-> profile[k][2],
       email |-> TeamAddress(k), created_at |-> k] : k \in 1..n }

Caps == {None} \cup {Some(c) : c \in 0..MaxCap}

ResolverInputs ==
    { Descriptor(kind, season, None, cap, None) :
        kind \in TargetTypes \ {"custom_emails"},
        season \in {None} \cup {Some(y) : y \in Seasons},
        cap \in Caps }
    \cup
    { Descriptor("custom_emails", None, list, cap, None) :
        list \in {None} \cup {Some(l) : l \in SeqsUpTo(Addresses, MaxListLen)},
        cap \in {None, Some(1)} }

InitResolver ==
    /\ \E n \in 0..MaxRegistry : \E profile \in [1..n -> TeamProfiles] :
          /\ teams = RegistryOf(n, profile)
          /\ nextTeamId = n + 1
    /\ campaigns = << >>
    /\ nextCampaignId = 1
    /\ email_logs = {}
    /\ reqs = [r \in 1..1 |-> IdleReq]
    /\ dels = << >>
    /\ smtp = TRUE
    /\ mails = << >>
    /\ stats = IdleStats
    /\ custom_sends = << >>

NextResolver ==
    \/ nextCampaignId <= 1 /\ \E data \in ResolverInputs : create_campaign(data)
    \/ \E cid \in 1..(nextCampaignId - 1) : send_campaign_select(1, cid)
    \/ send_campaign_resolve(1)

SpecResolver == InitResolver /\ [][NextResolver]_vars

\* ------------------------------------------------------------ properties
Calls == DOMAIN reqs

\* call r passed the guards of send_campaign and its background task exists
Dispatching(r) == reqs[r].pc \in {"loop", "flushed", "transport", "commit", "done", "error"}

\* the for loop of call r has run over the whole recipient list
LoopOver(r) ==
    \/ reqs[r].pc \in {"done", "error"}
    \/ reqs[r].pc = "loop" /\ reqs[r].i > Len(reqs[r].recipients)

LogsOf(r) == {l \in email_logs : l.disp = r}

CountOf(results, b) == Cardinality({i \in 1..Len(results) : results[i] = b})

\* C1: two send_campaign calls for the same draft campaign never both proceed
\* to sending; at most one of them starts a dispatch.
C1_SingleDispatch ==
    \A r1, r2 \in Calls :
        (r1 # r2 /\ reqs[r1].campaign_id = reqs[r2].campaign_id)
            => ~(Dispatching(r1) /\ Dispatching(r2))

\* C2: a send_campaign call on a campaign whose is_sent is true is answered 400
\* "already sent" and is a no-op: the step changes no campaign and no Delivery
\* Record, and the call never resolves recipients, invokes the Transport or
\* writes a Delivery Record.
C2_SentTriggerRejected ==
    [][\A r \in Calls :
          /\ ( /\ reqs[r].pc = "idle"
               /\ reqs'[r].pc # "idle"
               /\ reqs'[r].campaign_id \in DOMAIN campaigns
               /\ campaigns[reqs'[r].campaign_id].is_sent )
             => /\ reqs'[r].pc = "rejected"
                /\ reqs'[r].response = Rejected
                /\ campaigns' = campaigns
                /\ email_logs' = email_logs
          /\ reqs[r].response = Rejected
             => /\ reqs'[r] = reqs[r]
                /\ reqs[r].recipients = << >>
                /\ reqs[r].transport = << >>
                /\ {l \in email_logs' : l.disp = r} = {}
      ]_vars

C2_Witness ==
    \E r \in Calls :
        /\ reqs[r].response = Rejected
        /\ reqs[r].campaign_id \in DOMAIN campaigns
        /\ campaigns[reqs[r].campaign_id].is_sent

\* C3: once a campaign has is_sent = true, sent_count + failed_count equals the
\* number of Delivery Records written for that campaign, and the two counters
\* never change again.
C3_CountersMatchAndFrozen ==
    [][\A c \in DOMAIN campaigns' :
          campaigns'[c].is_sent =>
              /\ campaigns'[c].sent_count + campaigns'[c].failed_count
                     = Cardinality({l \in email_logs' : reqs'[l.disp].campaign_id = c})
              /\ (c \in DOMAIN campaigns /\ campaigns[c].is_sent)
                     => /\ campaigns'[c].sent_count = campaigns[c].sent_count
                        /\ campaigns'[c].failed_count = campaigns[c].failed_count
      ]_vars

\* C4: a failed send never stops a dispatch.  When the loop of a dispatch over
\* n recipients is over, every recipient was handed to send_email once, in
\* list order, and has one Delivery Record with the outcome of its send; the
\* final write then stores sent_count = n - k and failed_count = k, k being
\* the number of failed sends.
C4_FailureDoesNotStop ==
    [][\A r \in Calls :
          LET n == Len(reqs'[r].recipients)
              k == CountOf(reqs'[r].results, FALSE)
          IN /\ LoopOver(r)'
                => /\ Len(reqs'[r].results) = n
                   /\ Cardinality({l \in email_logs' : l.disp = r}) = n
                   /\ \A j \in 1..n : \E l \in email_logs' :
                         /\ l.disp = r /\ l.i = j
                         /\ l.to_email = reqs'[r].recipients[j].email
                         /\ l.status = IF reqs'[r].results[j] THEN "sent" ELSE "failed"
             /\ (reqs[r].pc # "done" /\ reqs'[r].pc = "done")
                => /\ campaigns'[reqs'[r].campaign_id].sent_count = n - k
                   /\ campaigns'[reqs'[r].campaign_id].failed_count = k
                   /\ campaigns'[reqs'[r].campaign_id].is_sent
      ]_vars

\* three recipients, the second failed: sent_count = 2, failed_count = 1
C4_Witness ==
    \E r \in Calls :
        /\ reqs[r].pc = "done"
        /\ reqs[r].results = << TRUE, FALSE, TRUE >>
        /\ reqs[r].campaign_id \in DOMAIN campaigns
        /\ campaigns[reqs[r].campaign_id].sent_count = 2
        /\ campaigns[reqs[r].campaign_id].failed_count = 1
        /\ Cardinality(LogsOf(r)) = 3

\* the Transport was invoked exactly once for every entry of the list, in order
TransportOncePerEntry(r) ==
    /\ Len(reqs[r].transport) = Len(reqs[r].recipients)
    /\ \A j \in 1..Len(reqs[r].transport) :
          /\ reqs[r].transport[j].i = j
          /\ reqs[r].transport[j].to = reqs[r].recipients[j].email

C6_RespondsBeforeSending ==
    \A r \in Calls :
        /\ (Dispatching(r) \/ LogsOf(r) # {} \/ reqs[r].transport # << >>)
              => reqs[r].response = Started(Len(reqs[r].recipients))
        /\ reqs[r].pc \in {"idle", "resolve"}
              => LogsOf(r) = {} /\ reqs[r].transport = << >> /\ reqs[r].response = NoResponse

\* a dispatch that ended with every send failed answered 200 all the same
C6_Witness ==
    \E r \in Calls :
        /\ reqs[r].pc = "done"
        /\ reqs[r].response = Started(2)
        /\ reqs[r].results = << FALSE, FALSE >>

\* C7: delete_campaign on a campaign with is_sent = true answers 400 and
\* changes neither the campaign nor any Delivery Record; a campaign is removed
\* only while its is_sent is false.
C7_DeleteOnlyDrafts ==
    [][/\ \A d \in DOMAIN dels :
             ( /\ dels[d].pc = "idle"
               /\ dels'[d].pc # "idle"
               /\ dels'[d].campaign_id \in DOMAIN campaigns
               /\ campaigns[dels'[d].campaign_id].is_sent )
             => /\ dels'[d].response = Rejected
                /\ campaigns' = campaigns
                /\ email_logs' = email_logs
       /\ \A c \in DOMAIN campaigns :
             c \notin DOMAIN campaigns' => ~campaigns[c].is_sent
      ]_vars

\* ------------------------------------------------------------ resolver properties
\* (checked under SpecResolver, where the registry does not change once drawn)

\* the list the resolver yields for the campaign when its cap is taken away
Uncapped(campaign) ==
    IF IsCustomList(campaign) THEN CustomRecipients(campaign)
    ELSE TeamsQuery(teams, [campaign EXCEPT !.recipients_limit = None])

\* C8 as stated: for every targeting kind, a campaign with cap C whose
\* matching set has N entries resolves to the first min(C, N) entries of the
\* uncapped list.
C8_CapEveryKind ==
    \A r \in Calls :
        (Dispatching(r) /\ reqs[r].campaign[1].recipients_limit # None) =>
            LET all == Uncapped(reqs[r].campaign[1])
                C == reqs[r].campaign[1].recipients_limit[1]
            IN reqs[r].recipients = SubSeq(all, 1, Min(C, Len(all)))

\* C8 as amended: for a campaign resolved from the team registry, a cap C >= 1
\* yields exactly the first min(C, N) entries of the uncapped newest-first list
\* of its N matching teams; a cap that is absent or 0 leaves the list uncapped;
\* an explicit address list is never capped.
C8_CapTeamsOnly ==
    \A r \in Calls :
        Dispatching(r) =>
            LET campaign == reqs[r].campaign[1]
                all == Uncapped(campaign)
                cap == campaign.recipients_limit
            IN IF ~IsCustomList(campaign) /\ cap # None /\ cap[1] >= 1
               THEN /\ Len(reqs[r].recipients) = Min(cap[1], Len(all))
                    /\ \A j \in 1..Len(reqs[r].recipients) : reqs[r].recipients[j] = all[j]
               ELSE reqs[r].recipients = all

\* a cap of 2 over at least 3 matching teams
C8_Witness ==
    \E r \in Calls :
        /\ Dispatching(r)
        /\ ~IsCustomList(reqs[r].campaign[1])
        /\ reqs[r].campaign[1].recipients_limit = Some(2)
        /\ Len(Uncapped(reqs[r].campaign[1])) >= 3
        /\ Len(reqs[r].recipients) = 2

TeamKinds == {"all_teams", "approved_teams", "pending_teams"}

\* the teams a team-based campaign is aimed at
Matching(campaign) ==
    { t \in teams :
        /\ campaign.target_type = "approved_teams" => t.status = "approved"
        /\ campaign.target_type = "pending_teams" => t.status = "pending"
        /\ campaign.target_season_id # None => t.season_id = campaign.target_season_id[1] }

FiveApproved == RegistryOf(5, [k \in 1..5 |-> << "approved", 1 >>])

\* C9: a team-based campaign resolves to teams whose status matches its kind
\* and whose season is its season scope when it has one, each once, newest
\* registration first; without a cap these are all the matching teams, with a
\* cap the newest ones.  Five approved teams registered at T1 < ... < T5 and a
\* cap of 2 give the team of T5, then the team of T4.
C9_TeamResolution ==
    \A r \in Calls :
        (Dispatching(r) /\ reqs[r].campaign[1].target_type \in TeamKinds) =>
            LET campaign == reqs[r].campaign[1]
                M == Matching(campaign)
                rec == reqs[r].recipients
                n == Len(rec)
                team(j) == CHOOSE t \in teams : Some(t.id) = rec[j].team_id
            IN /\ \A j \in 1..n : \E t \in M : rec[j] = [email |-> t.email, team_id |-> Some(t.id)]
               /\ \A h, j \in 1..n : h < j => team(h).created_at > team(j).created_at
               /\ n = IF TruthyInt(campaign.recipients_limit)
                      THEN Min(campaign.recipients_limit[1], Cardinality(M))
                      ELSE Cardinality(M)
               /\ \A t \in M : (\A j \in 1..n : rec[j].team_id # Some(t.id))
                                  => \A j \in 1..n : t.created_at < team(j).created_at
               /\ ( /\ teams = FiveApproved
                    /\ campaign.target_type = "approved_teams"
                    /\ campaign.target_season_id = Some(1)
                    /\ campaign.recipients_limit = Some(2) )
                  => rec = << [email |-> TeamAddress(5), team_id |-> Some(5)],
                              [email |-> TeamAddress(4), team_id |-> Some(4)] >>

C9_Witness ==
    \E r \in Calls :
        /\ Dispatching(r)
        /\ teams = FiveApproved
        /\ reqs[r].campaign[1].target_type = "approved_teams"
        /\ reqs[r].campaign[1].target_season_id = Some(1)
        /\ reqs[r].campaign[1].recipients_limit = Some(2)
        /\ Len(reqs[r].recipients) = 2

\* a list without its repeats, first occurrences kept
Dedup(list) ==
    LET F[k \in 0..Len(list)] ==
            IF k = 0 THEN << >>
            ELSE IF \E h \in 1..(k - 1) : list[h] = list[k] THEN F[k - 1]
            ELSE Append(F[k - 1], list[k])
    IN F[Len(list)]

\* C10: an explicit address list resolves to its addresses, each with no team
\* id, in the order given and without exact repeats (the first occurrence is
\* kept), so no address is sent to twice in one dispatch.
C10_ExplicitListDeduplicated ==
    \A r \in Calls :
        (Dispatching(r) /\ IsCustomList(reqs[r].campaign[1])) =>
            LET list == Dedup(json_loads(reqs[r].campaign[1].custom_emails[1]))
            IN reqs[r].recipients = [j \in 1..Len(list) |-> [email |-> list[j], team_id |-> None]]

\* ------------------------------------------------------------ lifecycle properties
\* (checked under Spec unless said otherwise)

\* the campaign row as call r loaded it
Loaded(r) == reqs[r].campaign[1]

\* C11: a campaign of the explicit-address kind whose address list is empty
\* resolves to no recipient: its dispatch writes no Delivery Record, invokes the
\* Transport for nobody and ends with total_recipients = 0, sent_count = 0,
\* failed_count = 0 and is_sent = true.
C11_EmptyListNoRecipients ==
    \A r \in Calls :
        ( /\ Dispatching(r)
          /\ Loaded(r).target_type = "custom_emails"
          /\ ~IsCustomList(Loaded(r)) )
        => /\ reqs[r].recipients = << >>
           /\ Loaded(r).total_recipients = 0
           /\ LogsOf(r) = {}
           /\ reqs[r].transport = << >>
           /\ reqs[r].pc = "done" =>
                 /\ campaigns[reqs[r].campaign_id].sent_count = 0
                 /\ campaigns[reqs[r].campaign_id].failed_count = 0

\* C12: a campaign whose targeting kind is none of the four known kinds is not
\* dispatched: its trigger does not proceed, no Delivery Record is written for
\* it, the Transport is invoked for nobody and its is_sent stays false.
C12_UnknownKindNotDispatched ==
    \A r \in Calls :
        (reqs[r].campaign # None /\ Loaded(r).target_type \notin TargetTypes)
        => /\ ~Dispatching(r)
           /\ LogsOf(r) = {}
           /\ reqs[r].transport = << >>
           /\ reqs[r].campaign_id \in DOMAIN campaigns
                 => ~campaigns[reqs[r].campaign_id].is_sent

\* the columns of a Delivery Record
Columns(l) ==
    [ to_email |-> l.to_email, subject |-> l.subject, email_type |-> l.email_type,
      status |-> l.status, error_message |-> l.error_message, team_id |-> l.team_id,
      sent_at |-> l.sent_at ]

\* C13 as stated (under SpecRegistry): a Delivery Record is written pending,
\* moves only to sent or to failed, and its columns never change once it is
\* sent or failed; a sent record has its completion time, a failed record has
\* an error detail, and a record that is not failed has none.
C13_RecordsMonotonic ==
    [][/\ \A l \in email_logs : \A m \in email_logs' :
             (m.disp = l.disp /\ m.i = l.i) =>
                 IF l.status = "pending"
                 THEN [Columns(m) EXCEPT !.status = "pending", !.sent_at = None,
                                         !.error_message = None] = Columns(l)
                 ELSE Columns(m) = Columns(l)
       /\ \A m \in email_logs' :
             /\ m.status \in {"pending", "sent", "failed"}
             /\ m.status = "sent" => m.sent_at # None
             /\ m.status = "failed" <=> m.error_message # None
             /\ (\A l \in email_logs : l.disp # m.disp \/ l.i # m.i) => m.status = "pending"
      ]_vars

\* the columns send_email assigns
Written(l) == [Columns(l) EXCEPT !.team_id = None]

\* C13 as amended (under SpecRegistry): a Delivery Record is written pending
\* and moves only to sent or to failed; once it is sent or failed its address,
\* subject, type, status, error detail and completion time never change, and
\* its team id changes only to null, when the team is deleted; a sent record
\* has its completion time, a failed record has an error detail, and a record
\* that is not failed has none.
C13_RecordsMonotonicButTeam ==
    [][/\ \A l \in email_logs : \A m \in email_logs' :
             (m.disp = l.disp /\ m.i = l.i) =>
                 /\ IF l.status = "pending"
                    THEN [Written(m) EXCEPT !.status = "pending", !.sent_at = None,
                                            !.error_message = None] = Written(l)
                    ELSE Written(m) = Written(l)
                 /\ \/ m.team_id = l.team_id
                    \/ /\ m.team_id = None
                       /\ \E t \in teams : Some(t.id) = l.team_id /\ t \notin teams'
       /\ \A m \in email_logs' :
             /\ m.status \in {"pending", "sent", "failed"}
             /\ m.status = "sent" => m.sent_at # None
             /\ m.status = "failed" <=> m.error_message # None
             /\ (\A l \in email_logs : l.disp # m.disp \/ l.i # m.i) => m.status = "pending"
      ]_vars

\* one dispatch has left a committed sent record and a committed failed record,
\* one of them of a team deleted since
C13_Witness ==
    \E l, m \in email_logs :
        /\ l.disp = m.disp
        /\ l.committed /\ l.status = "sent"
        /\ m.committed /\ m.status = "failed"
        /\ l.team_id = None \/ m.team_id = None

\* C14: a campaign is created with is_sent = false, and once its is_sent is
\* true no step sets it back, changes any of its columns, removes it or starts
\* another dispatch of it.
C14_SentIsFinal ==
    [][/\ \A c \in DOMAIN campaigns' : c \notin DOMAIN campaigns => ~campaigns'[c].is_sent
       /\ \A c \in DOMAIN campaigns :
             campaigns[c].is_sent =>
                 /\ c \in DOMAIN campaigns'
                 /\ campaigns'[c] = campaigns[c]
                 /\ \A r \in Calls :
                       (reqs[r].pc = "idle" /\ reqs'[r].campaign_id = c) => ~Dispatching(r)'
      ]_vars

FinalWrites(c) == {r \in Calls : reqs[r].campaign_id = c /\ reqs[r].pc = "done"}

\* C16: the sent_count and failed_count of a campaign are written once over its
\* life, by one dispatch: no campaign has two dispatches that made the final
\* write.
C16_CountersWrittenOnce ==
    \A c \in 1..(nextCampaignId - 1) : Cardinality(FinalWrites(c)) <= 1

\* the aiosmtplib.send calls of campaign c that have not returned yet
InFlight(c) == {r \in Calls : reqs[r].campaign_id = c /\ reqs[r].pc = "transport"}

\* C20: within one campaign at most one Transport invocation is in flight at
\* any moment.
C20_OneSendInFlight ==
    \A c \in 1..(nextCampaignId - 1) : Cardinality(InFlight(c)) <= 1

\* C19 (under SpecFair): every dispatch that was triggered makes its final
\* write, leaving the campaign with is_sent = true, however many sends failed.
C19_EveryDispatchFinalizes ==
    \A r \in 1..MaxTriggers :
        Dispatching(r) ~>
            ( /\ reqs[r].pc = "done"
              /\ reqs[r].campaign_id \in DOMAIN campaigns
              /\ campaigns[reqs[r].campaign_id].is_sent )

\* ------------------------------------------------------------ registry properties

\* C17 (under SpecRegistry): the recipients of a team campaign are the teams
\* that match it in the registry as it is when the trigger's query runs, newest
\* first and cut to the cap, whatever the registry was when the campaign was
\* created; the response carries their number, and the final write stores
\* sent_count + failed_count equal to that number while total_recipients keeps
\* the count taken at creation.
C17_ResolvedAtTrigger ==
    [][\A r \in Calls :
          /\ (reqs[r].pc = "resolve" /\ reqs'[r].pc = "loop") =>
                LET campaign == Loaded(r)
                    M == Matching(campaign)
                    rec == reqs'[r].recipients
                    n == Len(rec)
                IN /\ \A j \in 1..n :
                         \E t \in M : rec[j] = [email |-> t.email, team_id |-> Some(t.id)]
                   /\ \A h, j \in 1..n : h # j => rec[h].team_id # rec[j].team_id
                   /\ n = IF TruthyInt(campaign.recipients_limit)
                          THEN Min(campaign.recipients_limit[1], Cardinality(M))
                          ELSE Cardinality(M)
                   /\ reqs'[r].response = Started(n)
          /\ (reqs[r].pc # "done" /\ reqs'[r].pc = "done") =>
                LET row == campaigns'[reqs[r].campaign_id]
                IN /\ row.sent_count + row.failed_count = Len(reqs[r].recipients)
                   /\ row.total_recipients = Loaded(r).total_recipients
      ]_vars

\* a finished dispatch whose list held the team registered after the campaign
\* was created and is longer than the count taken at creation
C17_Witness ==
    \E r \in Calls :
        /\ reqs[r].pc = "done"
        /\ \E j \in 1..Len(reqs[r].recipients) : reqs[r].recipients[j].team_id = Some(3)
        /\ LET row == campaigns[reqs[r].campaign_id]
           IN /\ row.sent_count + row.failed_count = Len(reqs[r].recipients)
              /\ row.total_recipients < Len(reqs[r].recipients)

\* C18 (under SpecSenders): every send_email attempt, whoever the caller, has
\* exactly one Delivery Record: one per recipient a campaign dispatch has
\* processed, and one per recipient of every other handler's call.
C18_EveryAttemptLogged ==
    /\ \A r \in Calls : \A j \in 1..Len(reqs[r].results) :
          Cardinality({l \in LogsOf(r) : l.i = j}) = 1
    /\ \A k \in 1..Len(mails) :
          Cardinality({l \in email_logs : l.disp = 0 /\ l.i = k /\ l.to_email = mails[k].to}) = 1

\* ------------------------------------------------------------ further properties

\* C22 (under Spec): deleting a campaign removes the campaign alone: the step
\* that removes a campaign leaves every Delivery Record as it was.
C22_DeleteKeepsRecords ==
    [][(\E c \in DOMAIN campaigns : c \notin DOMAIN campaigns') => email_logs' = email_logs]_vars

\* a campaign was deleted and committed records of a dispatch of it are in the log
C22_Witness ==
    \E d \in DOMAIN dels :
        /\ dels[d].pc = "done"
        /\ dels[d].campaign_id \notin DOMAIN campaigns
        /\ \E l \in email_logs :
              l.committed /\ reqs[l.disp].campaign_id = dels[d].campaign_id

\* C23 (under SpecSenders): the response of get_email_stats has
\* pending = total - sent - failed, never negative and equal to the number of
\* Delivery Records in status pending when it is returned, also while
\* dispatches are writing records.
C23_PendingIsExact ==
    [][(stats.pc # "done" /\ stats'.pc = "done") =>
          LET response == stats'.response[1]
          IN /\ response.pending = response.total - response.sent - response.failed
             /\ response.pending >= 0
             /\ response.pending = Cardinality({l \in email_logs : l.status = "pending"})
      ]_vars

\* C24 (under Spec): without SMTP user or password no dispatch invokes the
\* Transport, every send_email call returns False and leaves its record failed
\* with "SMTP not configured", and the final write of a dispatch over n
\* recipients stores is_sent = true, sent_count = 0 and failed_count = n.
C24_UnconfiguredAllFailed ==
    [][~smtp =>
          \A r \in Calls :
              /\ reqs'[r].transport = << >>
              /\ \A j \in 1..Len(reqs'[r].results) :
                    /\ reqs'[r].results[j] = FALSE
                    /\ \E l \in email_logs' :
                          /\ l.disp = r /\ l.i = j
                          /\ l.status = "failed"
                          /\ l.error_message = Some("SMTP not configured")
              /\ \A l \in email_logs' : l.disp = r => l.status # "sent"
              /\ (reqs[r].pc # "done" /\ reqs'[r].pc = "done") =>
                    LET row == campaigns'[reqs[r].campaign_id]
                    IN /\ row.is_sent
                       /\ row.sent_count = 0
                       /\ row.failed_count = Len(reqs[r].recipients)
                       /\ Len(reqs[r].results) = Len(reqs[r].recipients)
      ]_vars

C24_Witness ==
    \E r \in Calls :
        /\ ~smtp
        /\ reqs[r].pc = "done"
        /\ Len(reqs[r].recipients) >= 2
        /\ reqs[r].campaign_id \in DOMAIN campaigns
        /\ campaigns[reqs[r].campaign_id].is_sent
        /\ campaigns[reqs[r].campaign_id].failed_count = Len(reqs[r].recipients)

\* C25 (under Spec): no campaign is removed while a dispatch of it has been
\* started and has not made its final write, so no final write finds its
\* campaign gone.
C25_NoDeleteInFlight ==
    [][/\ \A c \in DOMAIN campaigns :
             c \notin DOMAIN campaigns' =>
                 \A r \in Calls :
                     reqs[r].campaign_id = c =>
                         reqs[r].pc \notin {"resolve", "loop", "flushed", "transport", "commit"}
       /\ \A r \in Calls : reqs'[r].pc # "error"
      ]_vars

\* the dispatch of call r is under way
Running(r) == reqs[r].pc \in {"loop", "flushed", "transport", "commit"}

\* C21 (under SpecCampaigns): dispatches of different campaigns run at the same
\* time and none waits for another: a dispatch under way can always take its
\* next step.  A campaign row changes only in the final write of a dispatch of
\* that campaign, which stores the numbers of sent and failed records of that
\* dispatch and leaves every other campaign as it is.
C21_IndependentDispatches ==
    [][/\ \A r \in Calls : Running(r) => ENABLED send_campaign_emails(r)
       /\ \A c \in DOMAIN campaigns :
             campaigns'[c] # campaigns[c] =>
                 \E r \in Calls :
                     /\ reqs[r].campaign_id = c
                     /\ reqs[r].pc = "loop" /\ reqs'[r].pc = "done"
                     /\ campaigns'[c].is_sent
                     /\ campaigns'[c].sent_at # None
                     /\ campaigns'[c].sent_count
                            = Cardinality({l \in LogsOf(r) : l.status = "sent"})
                     /\ campaigns'[c].failed_count
                            = Cardinality({l \in LogsOf(r) : l.status = "failed"})
                     /\ \A o \in DOMAIN campaigns : o # c => campaigns'[o] = campaigns[o]
      ]_vars

\* two dispatches of two campaigns each have a send in flight, with records of
\* both already in the log
C21_Witness ==
    \E r1, r2 \in Calls :
        /\ reqs[r1].campaign_id # reqs[r2].campaign_id
        /\ reqs[r1].pc = "transport"
        /\ reqs[r2].pc = "transport"
        /\ reqs[r2].i = 2

\* C26 (under SpecResolver, where neither the registry nor the campaign
\* changes): the number of recipients send_campaign resolves is the
\* total_recipients create_campaign stored, for every kind, season scope, cap
\* (0 and absent included) and explicit list (empty or with repeats included).
C26_PreviewMatchesResolution ==
    \A r \in Calls :
        Dispatching(r) => Len(reqs[r].recipients) = Loaded(r).total_recipients

\* a cap of 0 over three teams or more, and an explicit list with a repeat
C26_Witness ==
    \E r \in Calls :
        /\ Dispatching(r)
        /\ \/ /\ Loaded(r).recipients_limit = Some(0)
              /\ Len(reqs[r].recipients) >= 3
           \/ /\ IsCustomList(Loaded(r))
              /\ Len(reqs[r].recipients) = 3
              /\ reqs[r].recipients[1] = reqs[r].recipients[3]

\* the columns of a campaign a dispatch has no business with
Frame(row) ==
    [ name |-> row.name, subject |-> row.subject, body |-> row.body,
      target_type |-> row.target_type, target_season_id |-> row.target_season_id,
      custom_emails |-> row.custom_emails, recipients_limit |-> row.recipients_limit,
      is_scheduled |-> row.is_scheduled, scheduled_at |-> row.scheduled_at,
      total_recipients |-> row.total_recipients ]

\* C27 (under Spec): no step of a trigger or of a dispatch changes the name,
\* subject, body, targeting descriptor, schedule fields or total_recipients of
\* a campaign; the final write changes sent_count, failed_count, is_sent and
\* sent_at only.
C27_DispatchFrame ==
    [][\A c \in DOMAIN campaigns :
          c \in DOMAIN campaigns' => Frame(campaigns'[c]) = Frame(campaigns[c])]_vars

\* a finalized dispatch whose list is longer than the stored preview
C27_Witness ==
    \E r \in Calls :
        /\ reqs[r].pc = "done"
        /\ reqs[r].campaign_id \in DOMAIN campaigns
        /\ campaigns[reqs[r].campaign_id].is_sent
        /\ campaigns[reqs[r].campaign_id].total_recipients < Len(reqs[r].recipients)

RecordsOf(call) ==
    {l \in email_logs : l.disp = 0 /\ l.i \in call.first..(call.first + Len(call.to) - 1)}

\* C30 (under SpecSenders): send_email given a list attempts every address of
\* it, a failure included, and returns True exactly when every send succeeded:
\* a send_custom_email call leaves one sent or failed record per address and
\* answers 200 when all are sent and 500 when one at least failed, the others
\* being sent and logged as sent all the same.
C30_CustomSendAllOrError ==
    \A k \in 1..Len(custom_sends) :
        LET call == custom_sends[k]
            n == Len(call.to)
        IN /\ Cardinality(RecordsOf(call)) = n
           /\ \A j \in 1..n : \E l \in RecordsOf(call) :
                 /\ l.i = call.first + j - 1
                 /\ l.to_email = call.to[j]
                 /\ l.status \in {"sent", "failed"}
           /\ call.response = IF \A l \in RecordsOf(call) : l.status = "sent"
                              THEN CustomSent(n) ELSE CustomError

\* a call answered 500 whose first address failed and whose second was sent
C30_Witness ==
    \E k \in 1..Len(custom_sends) :
        /\ custom_sends[k].response = CustomError
        /\ \E l, m \in RecordsOf(custom_sends[k]) :
              /\ l.i < m.i
              /\ l.status = "failed"
              /\ m.status = "sent"

====
